---- MODULE Spec2Model ----
(***************************************************************************)
(* Model of discord_sync.py: one run of main() is the pipeline             *)
(*   get_env_vars -> fetch_messages -> extract_attachments ->              *)
(*   sort_attachments -> write_json                                        *)
(* and the external scheduler starts the next run against the same output  *)
(* file.  The model starts at the entry of main().                         *)
(*                                                                         *)
(* JSON values are tagged records: [t |-> "absent"] (key not present),     *)
(* [t |-> "null"], [t |-> "str", v |-> <<tokens>>], [t |-> "num", n |-> k],*)
(* [t |-> "list", v |-> <<...>>], and an author object                     *)
(* [t |-> "obj", global_name |-> .., username |-> ..].  A Python string is *)
(* a sequence of tokens, "" is <<>>.                                       *)
(***************************************************************************)
EXTENDS Integers, Sequences, FiniteSets, TLC

VARIABLES pc, token, channel_id, file, fileBefore, fileOpened, requests,
          status, messages, extracted, attachments, stdout, exitCode,
          calls, run

vars == <<pc, token, channel_id, file, fileBefore, fileOpened, requests,
          status, messages, extracted, attachments, stdout, exitCode,
          calls, run>>

\* ---------------------------------------------------------------- bounds
MaxMsgs == 2
MaxRecs == 3
MaxRuns == 2

\* ----------------------------------------------------------- JSON values
Absent == [t |-> "absent"]
Null == [t |-> "null"]
Str(s) == [t |-> "str", v |-> s]
Num(k) == [t |-> "num", n |-> k]
List(s) == [t |-> "list", v |-> s]

\* Python truthiness of a value obtained with dict.get(key) (absent -> None)
Truthy(j) ==
    CASE j.t = "absent" -> FALSE
      [] j.t = "null" -> FALSE
      [] j.t = "str" -> j.v # <<>>
      [] j.t = "list" -> j.v # <<>>
      [] j.t = "num" -> j.n # 0

\* dict.get(key, default) once the field has been selected
Get(field, default) == IF field.t = "absent" THEN default ELSE field

\* x or y
Or(x, y) == IF Truthy(x) THEN x ELSE y

\* ------------------------------------------------------------ timestamps
JAN == "2024-01-01T00:00:00"
JUN == "2024-06-01T12:00:00"
Cores == {JAN, JUN}
Fracs == {".000000", ".500000"}
Offsets == {"+00:00", "+01:00"}

\* minutes between 0001-01-01T00:00 (datetime.min) and the date-time core
CoreMinutes(c) ==
    IF c = JAN THEN 738885 * 1440 ELSE (739037 * 1440) + 720
FracMicros(f) == IF f = ".500000" THEN 500000 ELSE 0
OffsetMinutes(o) == IF o = "+01:00" THEN 60 ELSE 0

\* a datetime: minutes and microseconds of local time, and the utc offset
DateTime(m, u, a, o) == [minutes |-> m, micros |-> u, aware |-> a, offset |-> o]
datetime_min == DateTime(0, 0, FALSE, 0)

\* str.replace(old, new) on the tokens of a string
Replace(s, old, new) == [i \in DOMAIN s |-> IF s[i] = old THEN new ELSE s[i]]

\* datetime.fromisoformat on a string in which no "Z" is left:
\* core [fraction] [offset]; anything else is a ValueError
fromisoformat(s) ==
    CASE Len(s) = 1 /\ s[1] \in Cores ->
           [ok |-> TRUE, dt |-> DateTime(CoreMinutes(s[1]), 0, FALSE, 0)]
      [] Len(s) = 2 /\ s[1] \in Cores /\ s[2] \in Fracs ->
           [ok |-> TRUE,
            dt |-> DateTime(CoreMinutes(s[1]), FracMicros(s[2]), FALSE, 0)]
      [] Len(s) = 2 /\ s[1] \in Cores /\ s[2] \in Offsets ->
           [ok |-> TRUE,
            dt |-> DateTime(CoreMinutes(s[1]), 0, TRUE, OffsetMinutes(s[2]))]
      [] Len(s) = 3 /\ s[1] \in Cores /\ s[2] \in Fracs /\ s[3] \in Offsets ->
           [ok |-> TRUE,
            dt |-> DateTime(CoreMinutes(s[1]), FracMicros(s[2]), TRUE,
                            OffsetMinutes(s[3]))]
      [] OTHER -> [ok |-> FALSE, dt |-> datetime_min]

\* a plausible slip: the "Z" marker is dropped instead of mapped to +00:00
parse_timestamp_dropZ(item) ==
    LET ts == Get(item.uploaded_at, Str(<<>>))
    IN  IF Truthy(ts)
        THEN IF ts.t = "str"
             THEN LET noZ == SelectSeq(ts.v, LAMBDA x : x # "Z")
                      r == fromisoformat(noZ)
                  IN  IF r.ok THEN r.dt ELSE datetime_min
             ELSE datetime_min
        ELSE datetime_min

\* sort key of a record (lines 121-133)
parse_timestamp(item) ==
    LET ts == Get(item.uploaded_at, Str(<<>>))
    IN  IF Truthy(ts)
        THEN IF ts.t = "str"
             THEN LET r == fromisoformat(Replace(ts.v, "Z", "+00:00"))
                  IN  IF r.ok THEN r.dt ELSE datetime_min   \* ValueError
             ELSE datetime_min                               \* TypeError
        ELSE datetime_min

\* datetime ordering: an aware and a naive datetime cannot be ordered
Comparable(a, b) == a.aware = b.aware
Instant(a) == a.minutes - a.offset
Less(a, b) ==
    \/ Instant(a) < Instant(b)
    \/ Instant(a) = Instant(b) /\ a.micros < b.micros
SameTime(a, b) == Instant(a) = Instant(b) /\ a.micros = b.micros

\* ------------------------------------------------------------------ sort
Reverse(s) == [i \in DOMAIN s |-> s[Len(s) + 1 - i]]

\* stable ascending insertion: x goes after every element not greater than it
RECURSIVE InsertAsc(_, _, _)
InsertAsc(s, x, i) ==
    IF i > Len(s) \/ Less(parse_timestamp(x), parse_timestamp(s[i]))
    THEN SubSeq(s, 1, i - 1) \o <<x>> \o SubSeq(s, i, Len(s))
    ELSE InsertAsc(s, x, i + 1)

RECURSIVE StableAsc(_)
StableAsc(s) ==
    IF s = <<>> THEN <<>>
    ELSE InsertAsc(StableAsc(SubSeq(s, 1, Len(s) - 1)), s[Len(s)], 1)

\* sorted() orders every element against the others, so it raises TypeError
\* exactly when two keys of the list cannot be ordered
sort_raises(atts) ==
    \E i, j \in DOMAIN atts :
        ~Comparable(parse_timestamp(atts[i]), parse_timestamp(atts[j]))

\* a plausible slip: sorted(...)[::-1] instead of reverse=True
sort_attachments_flip(atts) == Reverse(StableAsc(atts))

\* sorted(attachments, key=parse_timestamp, reverse=True): reverse=True
\* reverses, sorts stably ascending and reverses again
sort_attachments(atts) == Reverse(StableAsc(Reverse(atts)))

\* --------------------------------------------------------------- extract
Author(g, u) == [t |-> "obj", global_name |-> g, username |-> u]
EmptyObj == Author(Absent, Absent)
Attachment(f, u, s, c) == [filename |-> f, url |-> u, size |-> s, content_type |-> c]
Message(au, ts, atts) == [author |-> au, timestamp |-> ts, attachments |-> atts]

\* author.get("global_name") or author.get("username") or "Unknown"
author_name(msg) ==
    LET author == Get(msg.author, EmptyObj)
    IN  Or(Or(author.global_name, author.username), Str(<<"Unknown">>))

file_info(msg, attachment) ==
    [name |-> Get(attachment.filename, Str(<<"unknown">>)),
     url |-> Get(attachment.url, Str(<<>>)),
     uploaded_at |-> Get(msg.timestamp, Str(<<>>)),
     author |-> author_name(msg),
     size |-> Get(attachment.size, Num(0)),
     content_type |-> Get(attachment.content_type, Str(<<>>))]

\* the records one message contributes (body of the loop, lines 94-113)
message_records(msg) ==
    IF ~Truthy(msg.attachments) THEN <<>>
    ELSE [j \in DOMAIN msg.attachments.v |-> file_info(msg, msg.attachments.v[j])]

RECURSIVE extract_attachments(_)
extract_attachments(msgs) ==
    IF msgs = <<>> THEN <<>>
    ELSE extract_attachments(SubSeq(msgs, 1, Len(msgs) - 1))
             \o message_records(msgs[Len(msgs)])

\* msg.get("author", {}) is None for "author": null, and None.get raises
\* AttributeError (line 99); messages without attachments are skipped before
extract_raises(msgs) ==
    \E i \in DOMAIN msgs : Truthy(msgs[i].attachments) /\ msgs[i].author = Null

\* ----------------------------------------------------------------- write
NoFile == [exists |-> FALSE, data |-> <<>>]
FileOf(d) == [exists |-> TRUE, data |-> d]
Tok(s) == [tok |-> s]
RecTok(r) == [tok |-> "rec", rec |-> r]

\* chunks json.dump(attachments, f, indent=2) writes, one per record
json_dump(atts) ==
    IF atts = <<>> THEN <<Tok("[]")>>
    ELSE <<Tok("[")>> \o [i \in DOMAIN atts |-> RecTok(atts[i])] \o <<Tok("]")>>

\* the records of a completely written document
json_load(d) ==
    IF d = <<Tok("[]")>> THEN <<>>
    ELSE [i \in 1..(Len(d) - 2) |-> d[i + 1].rec]

\* -------------------------------------------------------------- printing
Line(l, k) == [line |-> l, n |-> k]
Last(s) == s[Len(s)]

\* ---------------------------------------------------------------- inputs
\* os.environ.get(name): None when unset, else the string
EnvVals == {Null, Str(<<>>), Str(<<"set">>)}

\* requests.get either raises (timeout, connection failure) or returns a
\* response with a status code
Statuses == {200, 204, 401, 403, 404, 500}

AttA == Attachment(Str(<<"a.png">>), Str(<<"cdn/a">>), Num(10), Str(<<"image/png">>))
AttB == Attachment(Str(<<"b.txt">>), Str(<<"cdn/b">>), Num(20), Str(<<"text/plain">>))
AttBare == Attachment(Absent, Absent, Absent, Absent)

Authors ==
    {Absent, Null}
      \cup {Author(g, u) : g \in {Absent, Null, Str(<<>>), Str(<<"Glob">>)},
                           u \in {Absent, Str(<<>>), Str(<<"user">>)}}
AttachmentFields ==
    {Absent, Null, List(<<>>), List(<<AttA>>), List(<<AttA, AttB>>),
     List(<<AttBare, AttA>>)}

TsJanFrac == Str(<<JAN, ".000000", "+00:00">>)
TsJan == Str(<<JAN, "+00:00">>)
TsJanZ == Str(<<JAN, "Z">>)
TsJunZ == Str(<<JUN, "Z">>)
Timestamps ==
    {Absent, Null, Str(<<>>), Str(<<"garbage">>),
     TsJanFrac, TsJan, TsJanZ, Str(<<JAN, ".000000", "Z">>),
     Str(<<JAN, ".500000", "Z">>), TsJunZ, Str(<<JUN, "+01:00">>),
     Str(<<JUN>>), Str(<<JAN, ".000000">>)}

SeqsUpTo(S, n) == UNION {[1..k -> S] : k \in 0..n}

\* response bodies of the whole pipeline: a few messages of every shape
PipelineMessages ==
    {Message(Author(Str(<<"Glob">>), Str(<<"user">>)), TsJanFrac, Absent),
     Message(Author(Null, Str(<<"user">>)), TsJunZ, List(<<>>)),
     Message(Author(Str(<<"Glob">>), Str(<<"user">>)), TsJanFrac, List(<<AttA>>)),
     Message(Author(Null, Str(<<"user">>)), TsJunZ, List(<<AttA, AttB>>)),
     Message(Absent, Absent, List(<<AttB>>)),
     Message(Null, TsJan, List(<<AttA>>)),
     Message(EmptyObj, Str(<<JUN>>), List(<<AttBare, AttA>>))}
PipelineBodies == SeqsUpTo(PipelineMessages, MaxMsgs)

\* inputs of the extractor: every author and attachments shape
ExtractMessages ==
    {Message(au, TsJanFrac, at) : au \in Authors, at \in AttachmentFields}

\* inputs of the sorter: message k carries the single attachment named k,
\* so that every record is identified by its name
Named(k) == Attachment(Str(<<ToString(k)>>), Str(<<>>), Num(k), Str(<<>>))
SortBodies ==
    {[k \in DOMAIN tss |->
         Message(Author(Null, Str(<<"user">>)), tss[k], List(<<Named(k)>>))] :
       tss \in SeqsUpTo(Timestamps, MaxRecs)}

\* --------------------------------------------------------------- actions
Exit(code, kind) ==
    /\ pc' = kind
    /\ exitCode' = code

\* a plausible slip: only the token is checked
GetEnvVarsTokenOnly ==
    /\ pc = "start"
    /\ calls' = Append(calls, "get_env_vars")
    /\ IF ~Truthy(token)
       THEN /\ stdout' = Append(stdout, Line("ERROR: DISCORD_BOT_TOKEN not set", 0))
            /\ Exit(1, "exited")
       ELSE /\ pc' = "fetch"
            /\ UNCHANGED <<stdout, exitCode>>
    /\ UNCHANGED <<token, channel_id, file, fileBefore, fileOpened, requests,
                   status, messages, extracted, attachments, run>>

\* get_env_vars (lines 24-36), called at line 163
GetEnvVars ==
    /\ pc = "start"
    /\ calls' = Append(calls, "get_env_vars")
    /\ IF ~Truthy(token)
       THEN /\ stdout' = Append(stdout, Line("ERROR: DISCORD_BOT_TOKEN not set", 0))
            /\ Exit(1, "exited")
       ELSE IF ~Truthy(channel_id)
       THEN /\ stdout' = Append(stdout, Line("ERROR: DISCORD_CHANNEL_ID not set", 0))
            /\ Exit(1, "exited")
       ELSE /\ pc' = "fetch"
            /\ UNCHANGED <<stdout, exitCode>>
    /\ UNCHANGED <<token, channel_id, file, fileBefore, fileOpened, requests,
                   status, messages, extracted, attachments, run>>

\* the message printed for a status other than 200 (lines 66-78)
StatusError(st) ==
    CASE st = 401 -> <<Line("ERROR: Invalid bot token (401 Unauthorized)", 0)>>
      [] st = 403 -> <<Line("ERROR: Bot lacks permission (403 Forbidden)", 0)>>
      [] st = 404 -> <<Line("ERROR: Channel not found (404 Not Found)", 0)>>
      [] OTHER -> <<Line("ERROR: Discord API returned status", st),
                    Line("Response: text", 0)>>

\* what follows requests.get once it has returned or raised
FetchOutcome(okStatuses, retry) ==
    \/ \* requests.get raises: uncaught, traceback, exit status 1
       /\ stdout' = Append(stdout, Line("Fetching up to 100 messages", 0))
       /\ IF retry THEN UNCHANGED <<pc, exitCode>> ELSE Exit(1, "crashed")
       /\ UNCHANGED <<status, messages>>
    \/ \E st \in Statuses :
          /\ status' = st
          /\ IF st \in okStatuses
             THEN \/ \* response.json() raises on a malformed body
                     /\ stdout' = Append(stdout, Line("Fetching up to 100 messages", 0))
                     /\ Exit(1, "crashed")
                     /\ UNCHANGED messages
                  \/ \E body \in PipelineBodies :
                        /\ messages' = body
                        /\ stdout' = stdout \o
                              <<Line("Fetching up to 100 messages", 0),
                                Line("Successfully fetched messages", Len(body))>>
                        /\ pc' = "extract"
                        /\ UNCHANGED exitCode
             ELSE /\ stdout' = stdout \o
                        <<Line("Fetching up to 100 messages", 0)>> \o StatusError(st)
                  /\ Exit(1, "exited")
                  /\ UNCHANGED messages

FetchCommon ==
    /\ pc = "fetch"
    /\ calls' = Append(calls, "fetch_messages")
    /\ requests' = requests + 1
    /\ UNCHANGED <<token, channel_id, file, fileBefore, fileOpened,
                   extracted, attachments, run>>

\* a plausible slip: every 2xx status is taken for success
FetchMessagesAny2xx == FetchCommon /\ FetchOutcome({200, 204}, FALSE)

\* a plausible slip: the request is issued again after a transport failure
FetchMessagesRetry ==
    /\ requests < 3
    /\ FetchCommon /\ FetchOutcome({200}, TRUE)

\* fetch_messages (lines 39-78), called at line 170
FetchMessages == FetchCommon /\ FetchOutcome({200}, FALSE)

\* extract_attachments (lines 81-116), called at line 173
ExtractAttachments ==
    /\ pc = "extract"
    /\ calls' = Append(calls, "extract_attachments")
    /\ IF extract_raises(messages)
       THEN /\ Exit(1, "crashed")
            /\ UNCHANGED <<extracted, attachments, stdout>>
       ELSE /\ extracted' = extract_attachments(messages)
            /\ attachments' = extracted'
            /\ stdout' = Append(stdout, Line("Extracted attachments", Len(extracted')))
            /\ pc' = "sort"
            /\ UNCHANGED exitCode
    /\ UNCHANGED <<token, channel_id, file, fileBefore, fileOpened, requests,
                   status, messages, run>>

\* sort_attachments (lines 119-135), called at line 176
SortAttachments ==
    /\ pc = "sort"
    /\ calls' = Append(calls, "sort_attachments")
    /\ IF sort_raises(attachments)
       THEN /\ Exit(1, "crashed")
            /\ UNCHANGED attachments
       ELSE /\ attachments' = sort_attachments(attachments)
            /\ pc' = "write"
            /\ UNCHANGED exitCode
    /\ UNCHANGED <<token, channel_id, file, fileBefore, fileOpened, requests,
                   status, messages, extracted, stdout, run>>

\* the content of the file once `chunks` have reached it after open(.., mode)
Opened(mode, old, chunks) == IF mode = "a" THEN old \o chunks ELSE chunks

\* write_json from mkdir on, and the rest of main
WriteOutcome(mode) ==
    LET ser == json_dump(attachments)
    IN  \/ \* mkdir or open raises OSError: nothing has touched the file
           /\ Exit(1, "crashed")
           /\ UNCHANGED <<file, fileOpened, stdout>>
        \/ \* a write, the flush or the close raises after open() succeeded
           \E n \in 0..(Len(ser) - 1) :
              /\ file' = FileOf(Opened(mode, file.data, SubSeq(ser, 1, n)))
              /\ fileOpened' = TRUE
              /\ Exit(1, "crashed")
              /\ UNCHANGED stdout
        \/ /\ file' = FileOf(Opened(mode, file.data, ser))
           /\ fileOpened' = TRUE
           /\ stdout' = stdout \o <<Line("Wrote entries", Len(attachments)),
                                    Line("Sync complete!", 0)>>
           /\ Exit(0, "done")

WriteCommon ==
    /\ pc = "write"
    /\ calls' = Append(calls, "write_json")
    /\ UNCHANGED <<token, channel_id, fileBefore, requests, status, messages,
                   extracted, attachments, run>>

\* a plausible slip: the file is opened with mode "a"
WriteJsonAppend == WriteCommon /\ WriteOutcome("a")

\* write_json (lines 138-153), called at line 179, and lines 181-183
WriteJson == WriteCommon /\ WriteOutcome("w")

\* the scheduler starts main() again; only the output file survives
NextRun ==
    /\ pc \in {"exited", "crashed", "done"}
    /\ run < MaxRuns
    /\ run' = run + 1
    /\ pc' = "start"
    /\ token' \in EnvVals
    /\ channel_id' \in EnvVals
    /\ fileBefore' = file
    /\ fileOpened' = FALSE
    /\ requests' = 0
    /\ status' = 0
    /\ messages' = <<>>
    /\ extracted' = <<>>
    /\ attachments' = <<>>
    /\ stdout' = <<>>
    /\ exitCode' = -1
    /\ calls' = <<>>
    /\ UNCHANGED file

\* -------------------------------------------------------- specifications
\* a first run on a checkout without the output file
Init ==
    /\ pc = "start"
    /\ run = 1
    /\ token \in EnvVals
    /\ channel_id \in EnvVals
    /\ file = NoFile
    /\ fileBefore = NoFile
    /\ fileOpened = FALSE
    /\ requests = 0
    /\ status = 0
    /\ messages = <<>>
    /\ extracted = <<>>
    /\ attachments = <<>>
    /\ stdout = <<>>
    /\ exitCode = -1
    /\ calls = <<>>

Next ==
    \/ GetEnvVars
    \/ FetchMessages
    \/ ExtractAttachments
    \/ SortAttachments
    \/ WriteJson
    \/ NextRun

Spec == Init /\ [][Next]_vars

\* main() after a 200 response with the given body
Fetched(body) ==
    /\ run = 1
    /\ token = Str(<<"set">>)
    /\ channel_id = Str(<<"set">>)
    /\ file = NoFile
    /\ fileBefore = NoFile
    /\ fileOpened = FALSE
    /\ requests = 1
    /\ status = 200
    /\ messages = body
    /\ exitCode = -1

\* the extractor applied to every bounded list of messages
InitExtract ==
    /\ \E k \in 0..MaxMsgs : \E body \in [1..k -> ExtractMessages] : Fetched(body)
    /\ pc = "extract"
    /\ extracted = <<>>
    /\ attachments = <<>>
    /\ stdout = <<Line("Fetching up to 100 messages", 0),
                  Line("Successfully fetched messages", Len(messages))>>
    /\ calls = <<"get_env_vars", "fetch_messages">>

NextExtract == ExtractAttachments

SpecExtract == InitExtract /\ [][NextExtract]_vars

\* the sorter and the writer applied to every bounded list of records
InitSort ==
    /\ \E body \in SortBodies : Fetched(body)
    /\ pc = "sort"
    /\ extracted = extract_attachments(messages)
    /\ attachments = extracted
    /\ stdout = <<Line("Fetching up to 100 messages", 0),
                  Line("Successfully fetched messages", Len(messages)),
                  Line("Extracted attachments", Len(extracted))>>
    /\ calls = <<"get_env_vars", "fetch_messages", "extract_attachments">>

NextSort ==
    \/ SortAttachments
    \/ WriteJson

SpecSort == InitSort /\ [][NextSort]_vars

\* ---------------------------------------------------------------- claims
Terminal == {"exited", "crashed", "done"}
Called(f) == \E i \in DOMAIN calls : calls[i] = f
CrashedIn(f) == pc = "crashed" /\ Last(calls) = f

\* C1: whatever ends a run, the output file is then either the content the
\* previous run left or the complete serialization of this run's sorted
\* records, never an empty or partial document.
C1_AllOrNothing ==
    pc \in Terminal =>
        \/ file = fileBefore
        \/ /\ Called("write_json")
           /\ file = FileOf(json_dump(attachments))

\* an uploaded_at the sorter can parse
ValidStamp(r) ==
    /\ r.uploaded_at.t = "str"
    /\ fromisoformat(Replace(r.uploaded_at.v, "Z", "+00:00")).ok
PosIn(s, r) == CHOOSE p \in DOMAIN s : s[p] = r

\* C2: for every list of records, also one that mixes valid and invalid
\* uploaded_at values, sort_attachments returns a list in which every invalid
\* record comes after every valid one and the invalid ones keep their order.
C2_InvalidLast ==
    Called("sort_attachments") =>
        /\ ~CrashedIn("sort_attachments")
        /\ Len(attachments) = Len(extracted)
        /\ \A i, j \in DOMAIN attachments :
              /\ (ValidStamp(attachments[i]) /\ ~ValidStamp(attachments[j])) => i < j
              /\ (~ValidStamp(attachments[i]) /\ ~ValidStamp(attachments[j]) /\ i < j)
                    => PosIn(extracted, attachments[i]) < PosIn(extracted, attachments[j])

OrderedStable(out) ==
    /\ Len(out) = Len(extracted)
    /\ \A r \in DOMAIN extracted : \E i \in DOMAIN out : out[i] = extracted[r]
    /\ \A i, j \in DOMAIN out :
          i < j =>
            LET ki == parse_timestamp(out[i])
                kj == parse_timestamp(out[j])
            IN  /\ Comparable(ki, kj)
                /\ ~Less(ki, kj)
                /\ SameTime(ki, kj)
                      => PosIn(extracted, out[i]) < PosIn(extracted, out[j])

\* C3: the array written to the output file is ordered newest first by
\* effective timestamp, and records with equal effective timestamps keep the
\* order they had in the extractor's output.
C3_NewestFirstStable ==
    pc = "done" =>
        /\ file.exists
        /\ OrderedStable(json_load(file.data))

C3_Witness ==
    /\ pc = "done"
    /\ Len(json_load(file.data)) = 3
    /\ \E i, j \in 1..3 :
          /\ i < j
          /\ extracted[i].uploaded_at # extracted[j].uploaded_at
          /\ SameTime(parse_timestamp(extracted[i]), parse_timestamp(extracted[j]))
    /\ \E i, j \in 1..3 :
          /\ i < j
          /\ Less(parse_timestamp(extracted[i]), parse_timestamp(extracted[j]))

\* C4: with the token or the channel id missing or empty, the run reports the
\* error naming a missing value and exits with status 1 before any HTTP
\* request and without touching the output file.
C4_MissingEnv ==
    (pc # "start" /\ (~Truthy(token) \/ ~Truthy(channel_id))) =>
        /\ pc = "exited"
        /\ exitCode = 1
        /\ calls = <<"get_env_vars">>
        /\ stdout = <<Line(IF ~Truthy(token)
                           THEN "ERROR: DISCORD_BOT_TOKEN not set"
                           ELSE "ERROR: DISCORD_CHANNEL_ID not set", 0)>>
        /\ requests = 0
        /\ ~fileOpened
        /\ file = fileBefore

C4_Witness ==
    /\ pc = "exited"
    /\ Truthy(token)
    /\ ~Truthy(channel_id)
    /\ fileBefore.exists
    /\ file = fileBefore

\* C5: every response status other than 200 ends the run with exit status 1
\* after its status-specific message, with no extraction, sort or write and
\* the file untouched; the file is written only after a 200.
C5_Non200 ==
    /\ status \notin {0, 200} =>
          /\ pc = "exited"
          /\ exitCode = 1
          /\ calls = <<"get_env_vars", "fetch_messages">>
          /\ stdout = <<Line("Fetching up to 100 messages", 0)>> \o StatusError(status)
          /\ extracted = <<>>
          /\ ~fileOpened
          /\ file = fileBefore
    /\ fileOpened => status = 200

C5_Witness ==
    /\ status = 403
    /\ pc = "exited"
    /\ fileBefore.exists
    /\ file = fileBefore

\* C6: no run issues more than one HTTP request, every run past credential
\* loading that has ended issued exactly one, and extraction, sorting and the
\* write only happen after that request returned.
C6_OneRequest ==
    /\ requests <= 1
    /\ requests = Cardinality({i \in DOMAIN calls : calls[i] = "fetch_messages"})
    /\ (pc \in Terminal /\ Truthy(token) /\ Truthy(channel_id)) => requests = 1
    /\ \A i \in DOMAIN calls :
          calls[i] \in {"extract_attachments", "sort_attachments", "write_json"}
             => /\ requests = 1
                /\ status = 200
                /\ \E k \in 1..(i - 1) : calls[k] = "fetch_messages"

C6_Witness ==
    /\ pc = "crashed"
    /\ calls = <<"get_env_vars", "fetch_messages">>
    /\ status = 0
    /\ requests = 1

RECURSIVE TotalAttachments(_)
TotalAttachments(msgs) ==
    IF msgs = <<>> THEN 0
    ELSE TotalAttachments(SubSeq(msgs, 1, Len(msgs) - 1))
           + (IF msgs[Len(msgs)].attachments.t = "list"
              THEN Len(msgs[Len(msgs)].attachments.v) ELSE 0)

\* C7: for any list of messages with M attachments in total the extractor
\* returns exactly M records, in message order and attachment order.
C7_ExactlyM ==
    Called("extract_attachments") =>
        /\ ~CrashedIn("extract_attachments")
        /\ Len(extracted) = TotalAttachments(messages)
        /\ \A i \in DOMAIN messages :
              messages[i].attachments.t = "list" =>
                 \A j \in DOMAIN messages[i].attachments.v :
                    LET k == TotalAttachments(SubSeq(messages, 1, i - 1)) + j
                        a == messages[i].attachments.v[j]
                    IN  /\ extracted[k].name = Get(a.filename, Str(<<"unknown">>))
                        /\ extracted[k].size = Get(a.size, Num(0))

\* the author name the priority rule gives
ExpectedAuthor(au) ==
    IF au.t = "obj" /\ au.global_name.t = "str" /\ au.global_name.v # <<>>
    THEN au.global_name
    ELSE IF au.t = "obj" /\ au.username.t = "str" /\ au.username.v # <<>>
    THEN au.username
    ELSE Str(<<"Unknown">>)

\* C8: all records of a message carry the same author: the global display
\* name, else the username, else "Unknown"; an absent or null author gives
\* "Unknown" and not a failure.
C8_AuthorPriority ==
    Called("extract_attachments") =>
        /\ ~CrashedIn("extract_attachments")
        /\ \A i \in DOMAIN messages :
              messages[i].attachments.t = "list" =>
                 \A j \in DOMAIN messages[i].attachments.v :
                    extracted[TotalAttachments(SubSeq(messages, 1, i - 1)) + j].author
                       = ExpectedAuthor(messages[i].author)

\* C9: a run that completes leaves in the file exactly its own sorted
\* records, whatever earlier runs wrote, and reports their number.
C9_Overwrite ==
    pc = "done" =>
        /\ file = FileOf(json_dump(attachments))
        /\ attachments = sort_attachments(extract_attachments(messages))
        /\ (TotalAttachments(messages) = 0 => file.data = <<Tok("[]")>>)
        /\ stdout[Len(stdout) - 1] = Line("Wrote entries", Len(json_load(file.data)))

C9_Witness ==
    /\ pc = "done"
    /\ run = 2
    /\ fileBefore.exists
    /\ Len(fileBefore.data) > 1
    /\ Len(file.data) > 1
    /\ fileBefore # file

\* the same instant in UTC, with or without a zero fraction, with Z or +00:00
UtcVariants(c) ==
    {Str(<<c, "Z">>), Str(<<c, "+00:00">>),
     Str(<<c, ".000000", "Z">>), Str(<<c, ".000000", "+00:00">>)}

\* C10: the same instant written with or without fractional seconds and with
\* Z or +00:00 gets equal, comparable sort keys, and a record stamped
\* 2024-06-01T12:00:00Z is written before one stamped
\* 2024-01-01T00:00:00.000000+00:00 whatever their input order.
C10_SameInstant ==
    /\ \A c \in Cores : \A i, j \in DOMAIN extracted :
          (extracted[i].uploaded_at \in UtcVariants(c)
             /\ extracted[j].uploaded_at \in UtcVariants(c))
          => /\ Comparable(parse_timestamp(extracted[i]), parse_timestamp(extracted[j]))
             /\ SameTime(parse_timestamp(extracted[i]), parse_timestamp(extracted[j]))
    /\ (\A i \in DOMAIN extracted :
           extracted[i].uploaded_at \in UtcVariants(JAN) \cup UtcVariants(JUN))
          => ~CrashedIn("sort_attachments")
    /\ pc = "done" =>
          \A i, j \in DOMAIN attachments :
             (attachments[i].uploaded_at = TsJunZ /\ attachments[j].uploaded_at = TsJanFrac)
                => i < j

C10_Witness ==
    /\ pc = "done"
    /\ Len(extracted) = 3
    /\ extracted[1].uploaded_at = TsJanFrac
    /\ extracted[2].uploaded_at = TsJunZ
    /\ extracted[3].uploaded_at = TsJanZ
    /\ attachments[1].uploaded_at = TsJunZ

====
